---- MODULE Spec2Model ----
(***************************************************************************)
(* Model of src/victoria/__init__.py: the Victoria buffer (push,           *)
(* push_points, use) that batches Points and POSTs them to the            *)
(* VictoriaMetrics import endpoint.                                        *)
(***************************************************************************)
EXTENDS Integers, Sequences, FiniteSets, TLC

\* ---------------------------------------------------------------- bounds
MaxLimit == 3
MaxPush == 5
MaxResults == 2
MaxPoints == 2

\* the default of the limit parameter
DefaultLimit == 1000

\* ------------------------------------------------------------ data model
None == "None"
ArgUrl == "http://arg"
EnvUrl == "http://env"
OtherUrl == "http://other"

LabelKeys == {"amount_in", "token_in", "token_out", "provider"}

\* Point(time, name, value, labels); time in microseconds since the epoch
Point(tm, nm, val, lbl) == [time |-> tm, name |-> nm, value |-> val, labels |-> lbl]

SampleLabels ==
    [k \in LabelKeys |->
        CASE k = "amount_in" -> "100.00"
          [] k = "token_in" -> "USDC"
          [] k = "token_out" -> "BTC"
          [] OTHER -> "acme"]

PointSet ==
    { Point(1500, "quote_amount_out", 99000, SampleLabels),
      Point(2999, "quote_elapsed", 42, SampleLabels) }

\* Points as a caller of push_points may build them, one of them with a label
\* named __name__
PointSetAll ==
    PointSet \cup
    { Point(-1500, "quote_btc_fee", -3, SampleLabels),
      Point(-2000, "quote_elapsed", 0, [k \in {"host"} |-> "a"]),
      Point(0, "up", 1, [k \in {} |-> ""]),
      Point(1009000, "quote_elapsed", 42, SampleLabels),
      Point(1500, "quote_amount_out", 7, [k \in {"__name__", "host"} |-> "b"]) }

\* p.time.timestamp() * 1000 is a product of IEEE-754 doubles: for the times
\* within 3 seconds of the epoch it is exact or rounds to the nearest double of
\* the exact value, except for these whole numbers of milliseconds, where it
\* is the double just below the integer in magnitude
\* (1.009 * 1000 = 1008.9999999999999)
ProductFallsShort(tm) ==
    LET a == IF tm >= 0 THEN tm ELSE 0 - tm
        ms == a \div 1000
    IN /\ a % 1000 = 0
       /\ \/ ms \in 1001..1023 /\ ms % 2 = 1
          \/ ms \in 2002..2046 /\ ms % 4 = 2

\* int(p.time.timestamp() * 1000): the double product, truncated toward zero
TimestampMs(tm) ==
    LET a == IF tm >= 0 THEN tm ELSE 0 - tm
        ms == IF ProductFallsShort(tm) THEN (a \div 1000) - 1 ELSE a \div 1000
    IN IF tm >= 0 THEN ms ELSE 0 - ms

point_to_victoria(p) ==
    [ metric |-> [k \in (DOMAIN p.labels) \cup {"__name__"} |->
                      IF k = "__name__" THEN p.name ELSE p.labels[k]],
      values |-> <<p.value>>,
      timestamps |-> <<TimestampMs(p.time)>> ]

\* ------------------------------------------------------------ transformer
\* Decimal(sign, digits, exp): the value (-1)^sign * digits * 10^exp
Decimal(sg, dg, ex) == [sign |-> sg, digits |-> dg, exp |-> ex]

RECURSIVE Join(_)
Join(chars) == IF chars = <<>> THEN "" ELSE chars[1] \o Join(Tail(chars))

RECURSIVE Zeros(_)
Zeros(n) == IF n <= 0 THEN "" ELSE "0" \o Zeros(n - 1)

DigitChar(d) ==
    CASE d = 0 -> "0" [] d = 1 -> "1" [] d = 2 -> "2" [] d = 3 -> "3"
      [] d = 4 -> "4" [] d = 5 -> "5" [] d = 6 -> "6" [] d = 7 -> "7"
      [] d = 8 -> "8" [] OTHER -> "9"

RECURSIVE NatStr(_)
NatStr(n) == IF n < 10 THEN DigitChar(n) ELSE NatStr(n \div 10) \o DigitChar(n % 10)

\* str(r.amount_in): the scientific string of a finite Decimal
DecimalStr(d) ==
    LET n == Len(d.digits)
        leftdigits == d.exp + n
        dotplace == IF d.exp <= 0 /\ leftdigits > -6 THEN leftdigits ELSE 1
        intpart == IF dotplace <= 0 THEN "0"
                   ELSE IF dotplace >= n THEN Join(d.digits) \o Zeros(dotplace - n)
                   ELSE Join(SubSeq(d.digits, 1, dotplace))
        fracpart == IF dotplace <= 0 THEN "." \o Zeros(0 - dotplace) \o Join(d.digits)
                    ELSE IF dotplace >= n THEN ""
                    ELSE "." \o Join(SubSeq(d.digits, dotplace + 1, n))
        e == leftdigits - dotplace
        exppart == IF e = 0 THEN ""
                   ELSE IF e > 0 THEN "E+" \o NatStr(e)
                   ELSE "E-" \o NatStr(0 - e)
    IN (IF d.sign = 1 THEN "-" ELSE "") \o intpart \o fracpart \o exppart

\* a float, as the rational num / den
Float(n, d) == [num |-> n, den |-> d]

\* float(value) of an int; float(value) of a float is that float
FloatOfInt(v) == Float(v, 1)

\* time: datetime|None
NoTime == [set |-> FALSE, at |-> 0]
Time(tm) == [set |-> TRUE, at |-> tm]

Result(tin, tout, ain, prov, el, tm, aout, amin, err, fee) ==
    [ token_in |-> tin, token_out |-> tout, amount_in |-> ain, provider |-> prov,
      elapsed |-> el, time |-> tm, amount_out |-> aout, amount_out_min |-> amin,
      error |-> err, btc_fee |-> fee ]

\* the labels with the elapsed time added
result_to_labelsWithElapsed(r) ==
    [k \in LabelKeys \cup {"elapsed"} |->
        CASE k = "amount_in" -> DecimalStr(r.amount_in)
          [] k = "token_in" -> r.token_in
          [] k = "token_out" -> r.token_out
          [] k = "elapsed" -> NatStr(r.elapsed.num)
          [] OTHER -> r.provider]

result_to_labels(r) ==
    [k \in LabelKeys |->
        CASE k = "amount_in" -> DecimalStr(r.amount_in)
          [] k = "token_in" -> r.token_in
          [] k = "token_out" -> r.token_out
          [] OTHER -> r.provider]

\* the assertion of result_to_point
TimeIsSetUnchecked(r) == TRUE

TimeIsSet(r) == r.time # NoTime

\* result_to_point past its assertion; value is float(value)
result_to_point(metric, value, r) ==
    Point(r.time.at, metric, value, result_to_labels(r))

\* the optional points tested with "> 0"
result_to_pointsPositiveOnly(r) ==
    <<result_to_point("quote_amount_out", FloatOfInt(r.amount_out), r),
      result_to_point("quote_elapsed", r.elapsed, r)>>
    \o (IF r.btc_fee > 0
        THEN <<result_to_point("quote_btc_fee", FloatOfInt(r.btc_fee), r)>>
        ELSE <<>>)
    \o (IF r.amount_out_min > 0
        THEN <<result_to_point("quote_amount_out_min", FloatOfInt(r.amount_out_min), r)>>
        ELSE <<>>)

\* the Points the generator yields, in order, when r.time is set
result_to_points(r) ==
    <<result_to_point("quote_amount_out", FloatOfInt(r.amount_out), r),
      result_to_point("quote_elapsed", r.elapsed, r)>>
    \o (IF r.btc_fee # 0
        THEN <<result_to_point("quote_btc_fee", FloatOfInt(r.btc_fee), r)>>
        ELSE <<>>)
    \o (IF r.amount_out_min # 0
        THEN <<result_to_point("quote_amount_out_min", FloatOfInt(r.amount_out_min), r)>>
        ELSE <<>>)

BaseResult(tm, fee, amin) ==
    Result("USDC", "BTC", Decimal(0, <<"1", "0", "0", "0", "0">>, -2), "acme",
           Float(42, 100), tm, 99000, amin, "", fee)

ResultSet ==
    { BaseResult(tm, fee, amin) :
          tm \in {NoTime, Time(1500)}, fee \in {0, 500, -3}, amin \in {0, 7} }
    \cup { Result("USDC", "BTC", Decimal(0, <<"1">>, 2), "acme",
                  Float(1, 2), Time(-1500), 0, -1, "boom", 0),
           Result("BTC", "USDC", Decimal(1, <<"5">>, -7), "other",
                  Float(0, 1), Time(2999), 1, 0, "", 500) }

\* dict(__name__=p.name, **p.labels) raises TypeError on a label named __name__
EncodeRaises(p) == "__name__" \in DOMAIN p.labels

\* the outcomes of client.post followed by resp.raise_for_status
Outcomes == {"2xx", "non2xx", "transport"}

\* raise_for_status left out: only a transport error raises
RaisesTransportOnly(outcome) == outcome = "transport"

Raises(outcome) == outcome # "2xx"

\* ------------------------------------------------------------------ state
VARIABLES
    pc,       \* "new", "failed", "body", "push_await", "fin_await", "done"
    env,      \* os.getenv('VICTORIAMETRICS_URL')
    url,      \* self.url
    limit,    \* self.limit
    points,   \* self.points: sequence of [id, p], id the identity of the Point object
    t,        \* self.t.n, the progress counter
    posts,    \* the HTTP POSTs issued, in issue order
    pushed,   \* the Points handed to push, in call order
    call,     \* the last push / finalize call and how it ended
    body,     \* the caller's body of `async with Victoria.use(...)`
    result,   \* how the `async with` statement (or the top-level call) ended
    arg,      \* the url argument given to Victoria(...)
    results,  \* the list given to push_results_to_victoria
    cur,      \* the Result the list comprehension is converting
    yielded,  \* yielded[i]: the Points result_to_points has yielded for results[i]
    late      \* the points appended while a flush was suspended, with that flush

vars == <<pc, env, url, limit, points, t, posts, pushed, call, body, result,
          arg, results, cur, yielded, late>>

\* the state of the conversion of a list of Results
tvars == <<results, cur, yielded>>

NoCall == [op |-> "none", post |-> 0, result |-> "none"]

Ids(pts) == [i \in 1..Len(pts) |-> pts[i].id]

\* the URL read from the environment at every flush
RequestEnvUrl(by, pts, n) ==
    [ by |-> by,
      at |-> n,
      ids |-> Ids(pts),
      data |-> [i \in 1..Len(pts) |-> point_to_victoria(pts[i].p)],
      url |-> <<env, "/import">>,
      outcome |-> "pending" ]

\* push_points up to the suspension in client.post: the body is serialized
\* from the list as it is now, then the request is issued
Request(by, pts, n) ==
    [ by |-> by,
      at |-> n,
      ids |-> Ids(pts),
      data |-> [i \in 1..Len(pts) |-> point_to_victoria(pts[i].p)],
      url |-> <<url, "/import">>,
      outcome |-> "pending" ]

\* a failed request sent a second time
SetOutcomeRetry(ps, outcome) ==
    IF outcome = "2xx"
    THEN [ps EXCEPT ![Len(ps)].outcome = outcome]
    ELSE Append([ps EXCEPT ![Len(ps)].outcome = outcome],
                [ps[Len(ps)] EXCEPT !.outcome = "2xx"])

SetOutcome(ps, outcome) == [ps EXCEPT ![Len(ps)].outcome = outcome]

\* the threshold test off by one
ShouldFlushLate(pts, lim) == Len(pts) = lim + 1

\* the threshold test as "at least"
ShouldFlushAtLeast(pts, lim) == Len(pts) >= lim

ShouldFlush(pts, lim) == Len(pts) = lim

\* the reset placed in a finally clause
PointsAfterFlushAlwaysClear(pts, outcome) == <<>>

\* the reset left out
PointsAfterFlushNeverClear(pts, outcome) == pts

\* the reset keeping the newest point
PointsAfterFlushKeepLast(pts, outcome) ==
    IF Raises(outcome) THEN pts ELSE <<pts[Len(pts)]>>

PointsAfterFlush(pts, outcome) == IF Raises(outcome) THEN pts ELSE <<>>

ProgressAfterFlush(n, outcome) == IF Raises(outcome) THEN n ELSE 0

Init ==
    /\ pc = "new"
    /\ env \in {None, EnvUrl}
    /\ url = None
    /\ limit = 0
    /\ points = <<>>
    /\ t = 0
    /\ posts = <<>>
    /\ pushed = <<>>
    /\ call = NoCall
    /\ body = "none"
    /\ result = "none"
    /\ arg = None
    /\ results = <<>>
    /\ cur = 0
    /\ yielded = <<>>
    /\ late = {}

\* v = Victoria(limit, url) in use, up to the yield
Construct(lim, u) ==
    /\ pc = "new"
    /\ LET resolved == IF u = None THEN env ELSE u
       IN IF resolved = None
          THEN /\ pc' = "failed"
               /\ result' = "raised"
               /\ UNCHANGED <<url, limit, points, t, body>>
          ELSE /\ pc' = "body"
               /\ url' = resolved
               /\ points' = <<>>
               /\ limit' = lim
               /\ t' = 0
               /\ body' = "running"
               /\ UNCHANGED result
    /\ arg' = u
    /\ UNCHANGED <<env, posts, pushed, call, late>>
    /\ UNCHANGED tvars

\* push, up to its return or to the suspension in push_points
Push(p) ==
    /\ pc = "body"
    /\ Len(pushed) < MaxPush
    /\ pushed' = Append(pushed, p)
    /\ points' = Append(points, [id |-> Len(pushed) + 1, p |-> p])
    /\ t' = t + 1
    /\ IF ShouldFlush(points', limit)
       THEN /\ posts' = Append(posts, Request("push", points', Len(pushed')))
            /\ call' = [op |-> "push", post |-> Len(posts'), result |-> "running"]
            /\ pc' = "push_await"
       ELSE /\ call' = [op |-> "push", post |-> 0, result |-> "ok"]
            /\ UNCHANGED <<posts, pc>>
    /\ UNCHANGED <<env, url, limit, body, result, arg, late>>
    /\ UNCHANGED tvars

\* push resumed by the response (or the transport error) of its flush
PushResume(outcome) ==
    /\ pc = "push_await"
    /\ posts' = SetOutcome(posts, outcome)
    /\ points' = PointsAfterFlush(points, outcome)
    /\ t' = ProgressAfterFlush(t, outcome)
    /\ call' = [call EXCEPT !.result = IF Raises(outcome) THEN "raised" ELSE "ok"]
    /\ pc' = "body"
    /\ UNCHANGED <<env, url, limit, pushed, body, result, arg, late>>
    /\ UNCHANGED tvars

\* the body raises (its own error, or the error of a push it did not catch):
\* the error is thrown into use at the yield, which does not catch it
BodyRaise ==
    /\ pc = "body"
    /\ body' = "raised"
    /\ result' = "raised"
    /\ pc' = "done"
    /\ UNCHANGED <<env, url, limit, points, t, posts, pushed, call, arg, late>>
    /\ UNCHANGED tvars

\* the body ends normally: use resumes after the yield and flushes v.points
BodyReturn ==
    /\ pc = "body"
    /\ body' = "returned"
    /\ posts' = Append(posts, Request("finalize", points, Len(pushed)))
    /\ call' = [op |-> "finalize", post |-> Len(posts'), result |-> "running"]
    /\ pc' = "fin_await"
    /\ UNCHANGED <<env, url, limit, points, t, pushed, result, arg, late>>
    /\ UNCHANGED tvars

\* the final flush resumed by its response
FinalizeResume(outcome) ==
    /\ pc = "fin_await"
    /\ posts' = SetOutcome(posts, outcome)
    /\ call' = [call EXCEPT !.result = IF Raises(outcome) THEN "raised" ELSE "ok"]
    /\ result' = IF Raises(outcome) THEN "raised" ELSE "ok"
    /\ pc' = "done"
    /\ UNCHANGED <<env, url, limit, points, t, pushed, body, arg, late>>
    /\ UNCHANGED tvars

\* ---------------------------------------------- push_results_to_victoria
SeqsUpTo(S, n) == UNION {[1..k -> S] : k \in 0..n}

RECURSIVE Flatten(_)
Flatten(ss) == IF ss = <<>> THEN <<>> ELSE ss[1] \o Flatten(Tail(ss))

\* the list handed to push_points, each Point with its position as identity
Listed(pts) == [i \in 1..Len(pts) |-> [id |-> i, p |-> pts[i]]]

\* push_results_to_victoria(results) called
InitResults ==
    /\ pc = "r_new"
    /\ env \in {None, EnvUrl}
    /\ url = None
    /\ limit = 0
    /\ points = <<>>
    /\ t = 0
    /\ posts = <<>>
    /\ pushed = <<>>
    /\ call = NoCall
    /\ body = "none"
    /\ result = "none"
    /\ arg = None
    /\ results \in SeqsUpTo(ResultSet, MaxResults)
    /\ cur = 0
    /\ yielded = [i \in 1..Len(results) |-> <<>>]
    /\ late = {}

\* push_points(points) called on a Victoria(url=ArgUrl) with a list of Points
InitPoints ==
    /\ pc = "pp_call"
    /\ env \in {None, EnvUrl}
    /\ url = ArgUrl
    /\ limit = DefaultLimit
    /\ points = <<>>
    /\ t = 0
    /\ posts = <<>>
    /\ pushed = <<>>
    /\ call = NoCall
    /\ body = "none"
    /\ result = "none"
    /\ arg = ArgUrl
    /\ results = <<>>
    /\ cur = 0
    /\ \E pts \in SeqsUpTo(PointSetAll, MaxPoints) : yielded = <<pts>>
    /\ late = {}

\* Victoria() in push_results_to_victoria: evaluated before the list
ResultsConstruct ==
    /\ pc = "r_new"
    /\ arg' = None
    /\ IF env = None
       THEN /\ pc' = "failed"
            /\ result' = "raised"
            /\ UNCHANGED <<url, limit, points, t, cur>>
       ELSE /\ pc' = IF results = <<>> THEN "pp_call" ELSE "convert"
            /\ url' = env
            /\ points' = <<>>
            /\ limit' = DefaultLimit
            /\ t' = 0
            /\ cur' = 1
            /\ UNCHANGED result
    /\ UNCHANGED <<env, posts, pushed, call, body, results, yielded, late>>

\* the list comprehension resumes the generator result_to_points(results[cur]):
\* the assertion fails, or the next Point is yielded, or the generator ends
Convert ==
    /\ pc = "convert"
    /\ LET r == results[cur]
       IN IF ~TimeIsSet(r)
          THEN /\ pc' = "failed"
               /\ result' = "raised"
               /\ UNCHANGED <<cur, yielded>>
          ELSE IF Len(yielded[cur]) < Len(result_to_points(r))
          THEN /\ yielded' = [yielded EXCEPT
                                 ![cur] = Append(@, result_to_points(r)[Len(@) + 1])]
               /\ UNCHANGED <<pc, result, cur>>
          ELSE /\ cur' = cur + 1
               /\ pc' = IF cur = Len(results) THEN "pp_call" ELSE "convert"
               /\ UNCHANGED <<result, yielded>>
    /\ UNCHANGED <<env, url, limit, points, t, posts, pushed, call, body, arg,
                   results, late>>

\* push_points(points) up to the suspension in client.post, or to the error
\* of the serialization
PushPointsCall ==
    /\ pc = "pp_call"
    /\ LET pts == Flatten(yielded)
       IN IF \E i \in DOMAIN pts : EncodeRaises(pts[i])
          THEN /\ pc' = "failed"
               /\ result' = "raised"
               /\ call' = [op |-> "push_points", post |-> 0, result |-> "raised"]
               /\ UNCHANGED posts
          ELSE /\ posts' = Append(posts, Request("push_points", Listed(pts), 0))
               /\ call' = [op |-> "push_points", post |-> Len(posts'), result |-> "running"]
               /\ pc' = "pp_await"
               /\ UNCHANGED result
    /\ UNCHANGED <<env, url, limit, points, t, pushed, body, arg, late>>
    /\ UNCHANGED tvars

\* push_points resumed by its response
PushPointsResume(outcome) ==
    /\ pc = "pp_await"
    /\ posts' = SetOutcome(posts, outcome)
    /\ call' = [call EXCEPT !.result = IF Raises(outcome) THEN "raised" ELSE "ok"]
    /\ result' = IF Raises(outcome) THEN "raised" ELSE "ok"
    /\ pc' = "done"
    /\ UNCHANGED <<env, url, limit, points, t, pushed, body, arg, late>>
    /\ UNCHANGED tvars

NextResults ==
    \/ ResultsConstruct
    \/ Convert
    \/ PushPointsCall
    \/ \E o \in Outcomes : PushPointsResume(o)

SpecResults == InitResults /\ [][NextResults]_vars

NextPoints ==
    \/ PushPointsCall
    \/ \E o \in Outcomes : PushPointsResume(o)

SpecPoints == InitPoints /\ [][NextPoints]_vars

\* the process environment read by os.getenv is changed by the process
Setenv(e) ==
    /\ e # env
    /\ env' = e
    /\ UNCHANGED <<pc, url, limit, points, t, posts, pushed, call, body, result,
                   arg, late>>
    /\ UNCHANGED tvars

Next ==
    \/ \E e \in {None, EnvUrl, OtherUrl} : Setenv(e)
    \/ \E lim \in 1..MaxLimit, u \in {None, ArgUrl} : Construct(lim, u)
    \/ \E p \in PointSet : Push(p)
    \/ \E o \in Outcomes : PushResume(o)
    \/ BodyRaise
    \/ BodyReturn
    \/ \E o \in Outcomes : FinalizeResume(o)

Spec == Init /\ [][Next]_vars

\* ------------------------------------------------- two interleaved pushes
\* a second push runs to its end while the flush of the first is suspended in
\* client.post: it appends to the list the first push will replace; its own
\* test fails, the list being longer than limit already
PushDuring(p) ==
    /\ pc = "push_await"
    /\ Len(pushed) < MaxPush
    /\ pushed' = Append(pushed, p)
    /\ points' = Append(points, [id |-> Len(pushed) + 1, p |-> p])
    /\ t' = t + 1
    /\ ~ShouldFlush(points', limit)
    /\ late' = late \cup {[id |-> Len(pushed) + 1, post |-> Len(posts)]}
    /\ UNCHANGED <<pc, env, url, limit, posts, call, body, result, arg>>
    /\ UNCHANGED tvars

NextConc ==
    \/ Next
    \/ \E p \in PointSet : PushDuring(p)

SpecConc == Init /\ [][NextConc]_vars

TypeOK ==
    /\ pc \in {"new", "failed", "body", "push_await", "fin_await", "done"}
    /\ limit \in 0..MaxLimit
    /\ Len(pushed) <= MaxPush

\* ------------------------------------------------------------- properties
RECURSIVE ConcatIds(_)
ConcatIds(ps) == IF ps = <<>> THEN <<>> ELSE ps[1].ids \o ConcatIds(Tail(ps))

RECURSIVE ConcatData(_)
ConcatData(ps) == IF ps = <<>> THEN <<>> ELSE ps[1].data \o ConcatData(Tail(ps))

AllOk(ps) == \A i \in DOMAIN ps : ps[i].outcome = "2xx"

Failed(o) == o \in {"non2xx", "transport"}

PostsOf(id) == {i \in DOMAIN posts : \E j \in DOMAIN posts[i].ids : posts[i].ids[j] = id}

PushEnded == pc \in {"body", "done"} /\ call.op = "push"

\* C1: when the `async with Victoria.use(...)` statement has ended, on
\* whatever exit path of the body, the final flush of the pending points
\* has been performed.
C1_FinalizeOnEveryExit ==
    pc = "done" => \E i \in DOMAIN posts : posts[i].by = "finalize"

\* C2: the pending sequence never holds more than capacity points, and when
\* a push has ended the pending sequence is below capacity (it was emptied if
\* it had reached capacity), whatever the outcomes of the flushes.
C2_PendingBounded ==
    pc \notin {"new", "failed"} =>
        /\ Len(points) <= limit
        /\ PushEnded => Len(points) < limit

\* C3: after n sequential pushes whose flushes all succeeded, floor(n / c)
\* POSTs have been issued, the k-th of them at the (k * c)-th push, and
\* n mod c points are pending.
C3_FlushCount ==
    (pc = "body" /\ AllOk(posts)) =>
        /\ Len(posts) = Len(pushed) \div limit
        /\ Len(points) = Len(pushed) % limit
        /\ \A i \in DOMAIN posts : posts[i].at = i * limit

C3_Witness ==
    /\ pc = "body" /\ AllOk(posts)
    /\ limit >= 2
    /\ Len(pushed) = limit + 1
    /\ Len(posts) = 1
    /\ Len(points) = 1

\* C4: a push issues a POST exactly when it makes the pending length equal
\* to capacity; that POST carries, one line per point and in insertion
\* order, exactly the capacity points pushed since the previous flush; a push
\* that leaves the pending length below capacity only appends its point.
C4_PushStep ==
    Len(pushed') = Len(pushed) + 1 =>
        /\ Ids(points') = Append(Ids(points), Len(pushed'))
        /\ (Len(posts') = Len(posts) + 1) <=> (Len(points') = limit)
        /\ Len(points') # limit => posts' = posts
        /\ Len(points') < limit => pc' = "body" /\ call'.result = "ok"

C4_Batches ==
    \A i \in DOMAIN posts : posts[i].by = "push" =>
        LET prev == IF i = 1 THEN 0 ELSE posts[i - 1].at
        IN /\ Len(posts[i].ids) = limit
           /\ posts[i].at = prev + limit
           /\ posts[i].ids = [j \in 1..limit |-> prev + j]
           /\ posts[i].data = [j \in 1..limit |-> point_to_victoria(pushed[prev + j])]

C4_FlushAtCapacity == [](C4_Batches) /\ [][C4_PushStep]_vars

C4_Witness ==
    /\ Len(posts) = 2
    /\ posts[2].by = "push"
    /\ limit = 2
    /\ posts[2].ids = <<3, 4>>
    /\ pushed[3] # pushed[4]

\* C5: when the body has exited normally and no flush failed, the batches of
\* all POSTs, concatenated in issue order, are the pushed sequence.
C5_AllDelivered ==
    (pc = "done" /\ body = "returned" /\ AllOk(posts)) =>
        /\ ConcatIds(posts) = [k \in 1..Len(pushed) |-> k]
        /\ ConcatData(posts) = [k \in 1..Len(pushed) |-> point_to_victoria(pushed[k])]

C5_Witness ==
    /\ pc = "done" /\ body = "returned" /\ AllOk(posts)
    /\ limit = 2
    /\ Len(pushed) = 5
    /\ Len(posts) = 3
    /\ pushed[1] # pushed[2]

\* C6: no POST is issued for an empty sequence of points.
C6_EmptyFlushNoPost ==
    \A i \in DOMAIN posts : posts[i].ids # <<>>

\* C7: a push or a finalize whose flush failed ends with that failure, and
\* the failure of the final flush is the outcome of the `async with`.
C7_FailurePropagates ==
    /\ (call.post # 0 /\ Failed(posts[call.post].outcome)) => call.result = "raised"
    /\ (pc = "done" /\ call.op = "finalize" /\ Failed(posts[call.post].outcome))
           => result = "raised"

C7_Witness ==
    /\ pc = "body"
    /\ call.op = "push"
    /\ call.post # 0
    /\ posts[call.post].outcome = "non2xx"
    /\ call.result = "raised"

C7_WitnessFinalize ==
    /\ pc = "done"
    /\ call.op = "finalize"
    /\ posts[call.post].outcome = "transport"
    /\ result = "raised"

\* C8: after a push whose capacity-triggered flush got a non-2xx response,
\* the failure is reported and the pending sequence still holds exactly the
\* points of the failed batch, in the same order.
C8_FailedBatchKept ==
    (PushEnded /\ call.post # 0 /\ posts[call.post].outcome = "non2xx") =>
        /\ call.result = "raised"
        /\ Ids(points) = posts[call.post].ids
        /\ [i \in 1..Len(points) |-> point_to_victoria(points[i].p)] = posts[call.post].data

C8_Witness ==
    /\ pc = "body"
    /\ call.op = "push" /\ call.post # 0
    /\ posts[call.post].outcome = "non2xx"
    /\ limit = 2
    /\ Len(points) = 2
    /\ points[1].p # points[2].p

C9_WitnessSuccess ==
    /\ PushEnded /\ call.post # 0
    /\ posts[call.post].outcome = "2xx"
    /\ points = <<>>

C11_Step ==
    posts' # posts =>
        \/ /\ pc = "body"
           /\ pc' \in {"push_await", "fin_await"}
           /\ Len(posts') = Len(posts) + 1
           /\ SubSeq(posts', 1, Len(posts)) = posts
           /\ posts'[Len(posts')].ids = Ids(points')
           /\ Len(posts'[Len(posts')].data) = Len(points')
           /\ posts'[Len(posts')].outcome = "pending"
        \/ /\ pc \in {"push_await", "fin_await"}
           /\ Len(posts') = Len(posts)
           /\ posts[Len(posts)].outcome = "pending"
           /\ posts'[Len(posts)].outcome \in Outcomes
           /\ posts' = [posts EXCEPT ![Len(posts)].outcome = posts'[Len(posts)].outcome]
           /\ call'.result = IF posts'[Len(posts)].outcome = "2xx" THEN "ok" ELSE "raised"

C11_OnePostPerFlush == [][C11_Step]_vars

C11_Witness ==
    /\ pc = "body"
    /\ call.op = "push" /\ call.post = 1
    /\ Len(posts) = 1
    /\ Len(posts[1].ids) = 2
    /\ posts[1].outcome = "transport"
    /\ call.result = "raised"

Names(ps) == [j \in 1..Len(ps) |-> ps[j].name]

ExpectedNames(r) ==
    <<"quote_amount_out", "quote_elapsed">>
    \o (IF r.btc_fee = 0 THEN <<>> ELSE <<"quote_btc_fee">>)
    \o (IF r.amount_out_min = 0 THEN <<>> ELSE <<"quote_amount_out_min">>)

ExpectedValue(r, nm) ==
    CASE nm = "quote_amount_out" -> [num |-> r.amount_out, den |-> 1]
      [] nm = "quote_elapsed" -> r.elapsed
      [] nm = "quote_btc_fee" -> [num |-> r.btc_fee, den |-> 1]
      [] OTHER -> [num |-> r.amount_out_min, den |-> 1]

Converted(i) == cur > i

\* C12: for a Result with time set, the points yielded are, in this order,
\* quote_amount_out, quote_elapsed, quote_btc_fee iff btc_fee # 0 and
\* quote_amount_out_min iff amount_out_min # 0, each with the value of its
\* field: 2 points plus one per non-zero optional field.
C12_PointsOfResult ==
    \A i \in DOMAIN results :
        LET r == results[i]
            ps == yielded[i]
        IN /\ Len(ps) <= Len(ExpectedNames(r))
           /\ Names(ps) = SubSeq(ExpectedNames(r), 1, Len(ps))
           /\ \A j \in DOMAIN ps : ps[j].value = ExpectedValue(r, ps[j].name)
           /\ Converted(i) =>
                  /\ Names(ps) = ExpectedNames(r)
                  /\ Len(ps) = 2 + (IF r.btc_fee # 0 THEN 1 ELSE 0)
                                 + (IF r.amount_out_min # 0 THEN 1 ELSE 0)

C12_Witness ==
    /\ Len(results) = 2
    /\ cur = 3
    /\ results[1].btc_fee = -3 /\ results[1].amount_out_min = 7
    /\ Len(yielded[1]) = 4
    /\ results[2].btc_fee = 0 /\ results[2].amount_out_min = 0
    /\ Len(yielded[2]) = 2

SameLabelFields(r1, r2) ==
    /\ r1.amount_in = r2.amount_in
    /\ r1.token_in = r2.token_in
    /\ r1.token_out = r2.token_out
    /\ r1.provider = r2.provider

\* C13: the points yielded for one Result carry the Result's time and equal
\* labels; the labels have exactly the keys amount_in, token_in, token_out,
\* provider, hold those fields (amount_in as its decimal string), and are the
\* same for two Results that agree on these four fields.
C13_TimeAndLabels ==
    /\ \A i \in DOMAIN results : \A j \in DOMAIN yielded[i] :
           LET r == results[i]
               p == yielded[i][j]
           IN /\ r.time.set /\ p.time = r.time.at
              /\ p.labels = yielded[i][1].labels
              /\ DOMAIN p.labels = {"amount_in", "token_in", "token_out", "provider"}
              /\ p.labels["token_in"] = r.token_in
              /\ p.labels["token_out"] = r.token_out
              /\ p.labels["provider"] = r.provider
              /\ p.labels["amount_in"] = DecimalStr(r.amount_in)
    /\ \A i1, i2 \in DOMAIN results :
           (SameLabelFields(results[i1], results[i2])
                /\ yielded[i1] # <<>> /\ yielded[i2] # <<>>)
               => yielded[i1][1].labels = yielded[i2][1].labels

C13_Witness ==
    /\ Len(results) = 2
    /\ cur = 3
    /\ SameLabelFields(results[1], results[2])
    /\ results[1].btc_fee # results[2].btc_fee
    /\ Len(yielded[1]) = 3
    /\ Len(yielded[2]) = 2
    /\ yielded[1][3].labels["amount_in"] = "100.00"

HasTimeless == \E i \in DOMAIN results : ~results[i].time.set

\* C14: a Result without time yields no Point, and a list holding such a
\* Result never reaches push_points: no POST is issued.
C14_FailFast ==
    /\ \A i \in DOMAIN results : ~results[i].time.set => yielded[i] = <<>>
    /\ HasTimeless => posts = <<>> /\ pc \in {"r_new", "convert", "failed"}

C14_Witness ==
    /\ pc = "failed"
    /\ url = EnvUrl
    /\ Len(results) = 2
    /\ results[1].time.set /\ ~results[2].time.set
    /\ Len(yielded[1]) = 3
    /\ yielded[2] = <<>>
    /\ posts = <<>>
    /\ result = "raised"

\* C15: the URL is resolved once, at construction: the url argument if given,
\* else the environment variable, else construction fails and nothing is ever
\* pushed or posted; every POST goes to the resolved URL followed by /import,
\* whatever the environment holds by then.
C15_Step ==
    /\ (pc = "new" /\ pc' # "new") =>
           IF arg' # None THEN pc' = "body" /\ url' = arg'
           ELSE IF env # None THEN pc' = "body" /\ url' = env
           ELSE pc' = "failed" /\ result' = "raised"
    /\ pc # "new" => url' = url
    /\ pc = "failed" => pc' = "failed"

C15_Resolved ==
    /\ pc = "failed" => posts = <<>> /\ pushed = <<>> /\ points = <<>>
    /\ pc \notin {"new", "failed"} => url \in {ArgUrl, EnvUrl, OtherUrl}
    /\ \A i \in DOMAIN posts : posts[i].url = <<url, "/import">>

C15_UrlResolvedOnce == [](C15_Resolved) /\ [][C15_Step]_vars

C15_Witness ==
    /\ arg = None
    /\ url = EnvUrl
    /\ env = OtherUrl
    /\ Len(posts) = 2
    /\ posts[2].outcome = "pending"
    /\ posts[2].url = <<EnvUrl, "/import">>

C15_WitnessFailed ==
    /\ pc = "failed"
    /\ arg = None
    /\ env = EnvUrl
    /\ posts = <<>>

\* what a reader of the record recovers: name, labels, value, timestamp
Decoded(rec) ==
    [ name |-> rec.metric["__name__"],
      labels |-> [k \in (DOMAIN rec.metric) \ {"__name__"} |-> rec.metric[k]],
      value |-> rec.values[1],
      ms |-> rec.timestamps[1] ]

\* ms is the time (microseconds) in milliseconds, truncated toward zero
TruncatedMs(ms, tm) ==
    IF tm >= 0
    THEN ms * 1000 <= tm /\ tm < (ms + 1) * 1000
    ELSE (ms - 1) * 1000 < tm /\ tm <= ms * 1000

Encodable(pts) == \A j \in DOMAIN pts : "__name__" \notin DOMAIN pts[j].labels

\* C16: a list of Points none of which has a label named __name__ is encoded,
\* one record per Point, and each record gives back the Point's name, its
\* labels unchanged, its value and its time as epoch milliseconds truncated,
\* with one entry in values and one in timestamps.
C16_RoundTrip ==
    LET pts == yielded[1]
    IN /\ (Encodable(pts) /\ pc # "pp_call") =>
              Len(posts) = 1 /\ Len(posts[1].data) = Len(pts)
       /\ \A i \in DOMAIN posts : \A j \in DOMAIN posts[i].data :
              LET rec == posts[i].data[j]
                  p == pts[posts[i].ids[j]]
              IN /\ Len(rec.values) = 1
                 /\ Len(rec.timestamps) = 1
                 /\ Decoded(rec).name = p.name
                 /\ Decoded(rec).labels = p.labels
                 /\ Decoded(rec).value = p.value
                 /\ TruncatedMs(Decoded(rec).ms, p.time)

\* C17: after a flush triggered by push has failed and the caller has pushed
\* capacity further points, a flush has been triggered again.
C17_FlushRearmed ==
    \A k \in DOMAIN posts :
        (/\ posts[k].by = "push"
         /\ Failed(posts[k].outcome)
         /\ pc = "body"
         /\ Len(pushed) >= posts[k].at + limit)
        => \E j \in DOMAIN posts :
               j > k /\ posts[j].by = "push" /\ posts[j].at <= posts[k].at + limit

\* C18: no POST carries more than capacity points; a POST issued by push
\* carries exactly capacity points and the one issued by finalize fewer.
C18_BatchBound ==
    \A i \in DOMAIN posts :
        /\ Len(posts[i].ids) <= limit
        /\ posts[i].by = "push" => Len(posts[i].ids) = limit
        /\ posts[i].by = "finalize" => Len(posts[i].ids) < limit

\* C19 as stated: a point appended by a push that ran while a flush was
\* suspended is, once that flush has succeeded, in a POST body or still
\* pending.
C19_NoLossUnderInterleaving ==
    \A l \in late :
        posts[l.post].outcome = "2xx" =>
            \/ PostsOf(l.id) # {}
            \/ \E j \in DOMAIN points : points[j].id = l.id

Pending(id) == \E j \in DOMAIN points : points[j].id = id

\* C19 as amended: a point appended by a push that ran while a flush was
\* suspended is not in the body of that flush; it is still pending while the
\* flush is in flight and after it failed, and once the flush has succeeded
\* it has been dropped by the reset: it is neither pending nor in any POST.
C19_LatePointDroppedOnSuccess ==
    \A l \in late :
        /\ \A j \in DOMAIN posts[l.post].ids : posts[l.post].ids[j] # l.id
        /\ posts[l.post].outcome = "2xx" => PostsOf(l.id) = {} /\ ~Pending(l.id)
        /\ posts[l.post].outcome # "2xx" => Pending(l.id)

C19_Witness ==
    /\ pc = "done"
    /\ body = "returned"
    /\ limit = 2
    /\ late = {[id |-> 3, post |-> 1]}
    /\ Len(pushed) = 4
    /\ AllOk(posts)
    /\ ConcatIds(posts) = <<1, 2, 4>>
====
